---- MODULE Spec2Model ----
(***************************************************************************)
(* Model of kuma's Socket.IO client: SioSocket (src/api/socket.ts) and the *)
(* KumaClient facade (src/api/client.ts) on top of it.                     *)
(*                                                                         *)
(* A frame is a sequence of one-character strings; a JSON text inside a    *)
(* frame is carried as one token (a string such as "[b,a]") whose parse is *)
(* given by JsonTable.  Type digits and call-ids are real digit characters,*)
(* so the decoder's digit handling is computed, not assumed.               *)
(***************************************************************************)
EXTENDS Integers, Sequences, FiniteSets, TLC

\* ------------------------------------------------------------------ bounds
MaxConnects == 2      \* connect() calls on one Session object
MaxCalls == 2         \* #call invocations
MaxQueryLen == 2     \* characters of a resolveMonitor query
MaxMonitors == 2     \* monitors in the list resolveMonitor searches
TimeoutTicks == 1     \* timeoutMs, in clock ticks
MaxPolls == 2         \* the 5000 ms ceiling of login's wait, in 100 ms sleeps

\* --------------------------------------------------------------- constants
DefaultPingInterval == 25000
AdvertisedPingInterval == 20000

Sockets == 1..MaxConnects

\* ------------------------------------------------------------------- codec
Digits == {"0", "1", "2", "3", "4", "5", "6", "7", "8", "9"}

DigitVal(c) ==
  CASE c = "0" -> 0 [] c = "1" -> 1 [] c = "2" -> 2 [] c = "3" -> 3
    [] c = "4" -> 4 [] c = "5" -> 5 [] c = "6" -> 6 [] c = "7" -> 7
    [] c = "8" -> 8 [] c = "9" -> 9

DigitChar(n) ==
  CASE n = 0 -> "0" [] n = 1 -> "1" [] n = 2 -> "2" [] n = 3 -> "3"
    [] n = 4 -> "4" [] n = 5 -> "5" [] n = 6 -> "6" [] n = 7 -> "7"
    [] n = 8 -> "8" [] n = 9 -> "9"

\* String(id) inside the template literal `42${id}${payload}`
RECURSIVE ToDigits(_)
ToDigits(n) ==
  IF n < 10 THEN <<DigitChar(n)>>
  ELSE ToDigits(n \div 10) \o <<DigitChar(n % 10)>>

\* parseInt(match[1], 10) on a run of digits
RECURSIVE ParseInt(_)
ParseInt(ds) ==
  IF ds = <<>> THEN 0
  ELSE ParseInt(SubSeq(ds, 1, Len(ds) - 1)) * 10 + DigitVal(ds[Len(ds)])

\* length of the leading run of digits: the (\d+) group of /^(\d+)(.*)/s
RECURSIVE DigitRun(_)
DigitRun(s) ==
  IF s = <<>> \/ s[1] \notin Digits THEN 0 ELSE 1 + DigitRun(Tail(s))

Slice(s, n) == SubSeq(s, n + 1, Len(s))     \* s.slice(n)

\* The JSON texts that occur in the frames of this model, with their parse.
\* kind: arr | obj | str | null; elems: the elements of an array;
\* name: the value itself; pi: an object's pingInterval (0: absent).
JVal(kind, name, elems, pi) ==
  [kind |-> kind, name |-> name, elems |-> elems, pi |-> pi]

JsonTable ==
  [t \in {"[a]", "[b,a]", "[]", "\"a\"", "{pi}", "{}", "null",
          "[monitorList,m1]", "[monitorList,m2]", "[other,m1]",
          "[__sio_connect]", "[login]", "[getTags]", "[info,i1]",
          "[{ok:true}]", "[{ok:false,msg}]"} |->
     CASE t = "[a]" -> JVal("arr", t, <<"a">>, 0)
       [] t = "[b,a]" -> JVal("arr", t, <<"b", "a">>, 0)
       [] t = "[]" -> JVal("arr", t, <<>>, 0)
       [] t = "\"a\"" -> JVal("str", "a", <<>>, 0)
       [] t = "{pi}" -> JVal("obj", t, <<>>, AdvertisedPingInterval)
       [] t = "{}" -> JVal("obj", t, <<>>, 0)
       [] t = "null" -> JVal("null", t, <<>>, 0)
       [] t = "[monitorList,m1]" -> JVal("arr", t, <<"monitorList", "m1">>, 0)
       [] t = "[monitorList,m2]" -> JVal("arr", t, <<"monitorList", "m2">>, 0)
       [] t = "[other,m1]" -> JVal("arr", t, <<"other", "m1">>, 0)
       [] t = "[__sio_connect]" -> JVal("arr", t, <<"__sio_connect">>, 0)
       [] t = "[login]" -> JVal("arr", t, <<"login">>, 0)
       [] t = "[getTags]" -> JVal("arr", t, <<"getTags">>, 0)
       [] t = "[info,i1]" -> JVal("arr", t, <<"info", "i1">>, 0)
       [] t = "[{ok:true}]" -> JVal("arr", t, <<"{ok:true}">>, 0)
       [] t = "[{ok:false,msg}]" -> JVal("arr", t, <<"{ok:false,msg}">>, 0)]

\* A JSON number: a run of digits without a leading zero.
IsJsonNumber(s) ==
  /\ s # <<>>
  /\ DigitRun(s) = Len(s)
  /\ (Len(s) = 1 \/ s[1] # "0")

\* JSON.parse: succeeds on exactly one JSON text and throws on anything else
\* (the empty string, leading digits glued to a text, garbage).
JsonParses(s) == IsJsonNumber(s) \/ (Len(s) = 1 /\ s[1] \in DOMAIN JsonTable)
JsonParse(s) ==
  IF IsJsonNumber(s) THEN JVal("num", "num", <<>>, 0) ELSE JsonTable[s[1]]

\* JSON.stringify([event, ...args]) of an outgoing call
JsonStringify(event) == "[" \o event \o "]"

\* ------------------------------------------------------------------- state
VARIABLES
  ws,            \* SioSocket.#ws: 0 is null, else the socket connect() made
  readyState,    \* each WebSocket's state
  connected,     \* SioSocket.#connected
  pingTimer,     \* SioSocket.#pingTimer: 0 is null, else the armed interval
  intervals,     \* the setInterval timers of the session not yet cleared
  listeners,     \* SioSocket.#listeners: event name -> handlers, in order
  acks,          \* SioSocket.#acks: call-id -> the call its resolver settles
  ackId,         \* SioSocket.#ackId
  conn,          \* per connect(): its promise and its timeout timer
  calls,         \* per #call, in issue order: its promises and its timer
  cache,         \* KumaClient's pushed data caches
  outbox,        \* the frames the last step sent, with their socket
  gotOpen,       \* history: the sockets an OPEN frame was received on
  disconnected   \* history: the connects a disconnect() call came after

\* KumaClient's methods in progress, and the CLI command that drives them
VARIABLES
  login,         \* KumaClient.login: its call and its wait for pushed data
  cmd,           \* the CLI command's action: where it stands, its exit code
  rm             \* resolveMonitor: its arguments and what it came to

cliVars == <<cmd, rm>>
clientVars == <<login, cmd, rm>>

vars == <<ws, readyState, connected, pingTimer, intervals, listeners, acks, ackId,
          conn, calls, cache, outbox, gotOpen, disconnected, login, cmd, rm>>

PushTopics ==
  <<"monitorList", "notificationList", "statusPageList", "maintenanceList",
    "info">>

NoTimer == [armed |-> FALSE, left |-> 0]
\* a timer that is never armed
NewTimer_Unarmed == NoTimer
NewTimer == [armed |-> TRUE, left |-> TimeoutTicks]     \* setTimeout(.., timeoutMs)

EmptyMap == [x \in {} |-> 0]

\* login() has not been called
NoLogin == [call |-> 0, polls |-> 0, done |-> FALSE]
\* no command has started; resolveMonitor has not been called
NoCommand == [pc |-> "idle", call |-> 0, exitCode |-> -1]
NoResult == [kind |-> "none", id |-> 0, exitCode |-> 0, listed |-> <<>>]
NoResolve == [query |-> <<>>, monitors |-> <<>>, result |-> NoResult]

InitSession ==
  /\ ws = 0
  /\ readyState = [s \in Sockets |-> "NONE"]
  /\ connected = FALSE
  /\ pingTimer = 0
  /\ intervals = 0
  /\ listeners = EmptyMap
  /\ acks = EmptyMap
  /\ ackId = 0
  /\ conn = [k \in Sockets |-> [status |-> "none", timer |-> NoTimer]]
  /\ calls = <<>>
  /\ cache = [t \in {PushTopics[i] : i \in DOMAIN PushTopics} |-> "null"]
  /\ outbox = <<>>
  /\ gotOpen = {}
  /\ disconnected = {}
  /\ login = NoLogin
  /\ cmd = NoCommand

Init == InitSession /\ rm = NoResolve

\* a promise that takes every resolve and reject, the last one winning
Settle_LastWins(status, outcome) == outcome

\* A promise settles once: resolve and reject after that change nothing.
Settle(status, outcome) == IF status = "pending" THEN outcome ELSE status

\* -------------------------------------------------------- listener table
onConnect(k) == [fn |-> "onConnect", k |-> k]
\* every cache listener writes the monitorList field
cacheListener_Shared(topic) == [fn |-> "monitorList", k |-> 0]
cacheListener(topic) == [fn |-> topic, k |-> 0]

\* arr.indexOf(handler): 0 when absent
RECURSIVE IndexFrom(_, _, _)
IndexFrom(arr, h, i) ==
  IF i > Len(arr) THEN 0
  ELSE IF arr[i] = h THEN i ELSE IndexFrom(arr, h, i + 1)

on(ls, event, handler) ==
  IF event \in DOMAIN ls THEN [ls EXCEPT ![event] = Append(@, handler)]
  ELSE [e \in DOMAIN ls \cup {event} |->
          IF e = event THEN <<handler>> ELSE ls[e]]

\* a splice that cuts the array off at the handler
off_Truncates(ls, event, handler) ==
  IF event \notin DOMAIN ls THEN ls
  ELSE LET arr == ls[event]
           idx == IndexFrom(arr, handler, 1)
       IN IF idx = 0 THEN ls
          ELSE [ls EXCEPT ![event] = SubSeq(arr, 1, idx - 1)]

\* off(event, handler): arr.splice(arr.indexOf(handler), 1)
off(ls, event, handler) ==
  IF event \notin DOMAIN ls THEN ls
  ELSE LET arr == ls[event]
           idx == IndexFrom(arr, handler, 1)
       IN IF idx = 0 THEN ls
          ELSE [ls EXCEPT ![event] =
                  SubSeq(arr, 1, idx - 1) \o SubSeq(arr, idx + 1, Len(arr))]

\* What the handlers of a dispatch read and write, and the handler calls the
\* dispatch has made so far.
Dispatch == [listeners |-> listeners, conn |-> conn, connected |-> connected,
             cache |-> cache, invoked |-> <<>>]

\* the call h(...args)
Invocation(h, args) == [h |-> h, args |-> args]

\* an onConnect that leaves its connect timer armed
Invoke_KeepsTimer(h, st, args) ==
  IF h.fn = "onConnect"
  THEN [st EXCEPT
          !.conn[h.k] = [@ EXCEPT !.status = Settle(@, "resolved")],
          !.connected = TRUE,
          !.listeners = off(st.listeners, "__sio_connect", h),
          !.invoked = Append(@, Invocation(h, args))]
  ELSE [st EXCEPT !.cache[h.fn] = IF args = <<>> THEN "undefined" ELSE args[1],
                  !.invoked = Append(@, Invocation(h, args))]

\* One handler call h(...args): the onConnect closure of connect k, or one of
\* the facade's five cache listeners.
Invoke(h, st, args) ==
  IF h.fn = "onConnect"
  THEN [st EXCEPT
          !.conn[h.k] = [status |-> Settle(@.status, "resolved"),
                         timer |-> NoTimer],
          !.connected = TRUE,
          !.listeners = off(st.listeners, "__sio_connect", h),
          !.invoked = Append(@, Invocation(h, args))]
  ELSE [st EXCEPT !.cache[h.fn] = IF args = <<>> THEN "undefined" ELSE args[1],
                  !.invoked = Append(@, Invocation(h, args))]

\* for (const h of handlers) h(...args): the iteration walks the live array
\* by index, so a handler that removes itself shifts the ones behind it.
RECURSIVE EmitFrom(_, _, _, _)
EmitFrom(st, event, args, i) ==
  IF i > Len(st.listeners[event]) THEN st
  ELSE EmitFrom(Invoke(st.listeners[event][i], st, args), event, args, i + 1)

emit(st, event, args) ==
  IF event \notin DOMAIN st.listeners THEN st
  ELSE EmitFrom(st, event, args, 1)

\* ------------------------------------------------------------- the socket
\* ws.send(frame): throws while CONNECTING, transmits while OPEN, and
\* discards the data once the socket is closing or closed.
SendThrows == ws # 0 /\ readyState[ws] = "CONNECTING"
Sent(frame) ==
  IF ws # 0 /\ readyState[ws] = "OPEN"
  THEN <<[sock |-> ws, frame |-> frame]>>
  ELSE <<>>

\* the socket reference is dropped without closing the socket
Closed_Not(rs) == rs

\* ws.close()
Closed(rs) == IF rs \in {"CONNECTING", "OPEN"} THEN "CLOSING" ELSE rs

stopPing == 0
startPing(intervalMs) == intervalMs

\* the timers of the event loop: clearInterval is called only on a
\* non-null #pingTimer, and #startPing calls #stopPing before setInterval
stopPingIntervals == IF pingTimer # 0 THEN intervals - 1 ELSE intervals
\* a #startPing that arms its interval without clearing the one before
startPingIntervals_Leaks == intervals + 1
startPingIntervals == stopPingIntervals + 1

\* #cleanup
cleanupConnected == FALSE
cleanupReadyState ==
  IF ws # 0 THEN [readyState EXCEPT ![ws] = Closed(@)] ELSE readyState
\* a teardown that keeps the pending-call table
cleanupAcks_Keeps == acks
cleanupAcks == EmptyMap
cleanupSession ==
  /\ connected' = cleanupConnected
  /\ pingTimer' = stopPing
  /\ intervals' = stopPingIntervals
  /\ ws' = 0
  /\ acks' = cleanupAcks
cleanup == cleanupSession /\ readyState' = cleanupReadyState

\* ---------------------------------------------------------- frame parsing
\* OPEN: the interval startPing is called with; 0 when JSON.parse or the
\* property read throws, and the catch swallows it before startPing runs.
OpenInterval(payload) ==
  IF JsonParses(payload) /\ JsonParse(payload).kind # "null"
  THEN IF JsonParse(payload).pi # 0 THEN JsonParse(payload).pi
       ELSE DefaultPingInterval
  ELSE 0

OpenPingTimer(payload) ==
  IF OpenInterval(payload) # 0 THEN startPing(OpenInterval(payload))
  ELSE pingTimer

OpenIntervals(payload) ==
  IF OpenInterval(payload) # 0 THEN startPingIntervals ELSE intervals

dropFrame ==
  /\ outbox' = <<>>
  /\ UNCHANGED <<ws, readyState, connected, pingTimer, intervals, listeners, acks,
                 ackId, conn, calls, cache>>

handleOpen(payload) ==
  /\ outbox' = Sent(<<"4", "0">>)
  /\ pingTimer' = OpenPingTimer(payload)
  /\ intervals' = OpenIntervals(payload)
  /\ UNCHANGED <<ws, readyState, connected, listeners, acks, ackId, conn,
                 calls, cache>>

\* a PING that gets no reply
handlePing_Silent == dropFrame

handlePing ==
  /\ outbox' = Sent(<<"3">>)
  /\ UNCHANGED <<ws, readyState, connected, pingTimer, intervals, listeners, acks,
                 ackId, conn, calls, cache>>

\* a dispatch that also empties the pending-call table
dispatched_ClearsAcks(st) ==
  /\ listeners' = st.listeners
  /\ conn' = st.conn
  /\ connected' = st.connected
  /\ cache' = st.cache
  /\ outbox' = <<>>
  /\ acks' = EmptyMap
  /\ UNCHANGED <<ws, readyState, pingTimer, intervals, ackId, calls>>

\* the effects of a dispatch on the session
dispatched(st) ==
  /\ listeners' = st.listeners
  /\ conn' = st.conn
  /\ connected' = st.connected
  /\ cache' = st.cache
  /\ outbox' = <<>>
  /\ UNCHANGED <<ws, readyState, pingTimer, intervals, acks, ackId, calls>>

\* EVENT: the array a dispatch is made from, <<>> when the frame is dropped
EventArray(json) ==
  IF JsonParses(json) /\ JsonParse(json).kind = "arr"
     /\ Len(JsonParse(json).elems) >= 1
  THEN JsonParse(json).elems
  ELSE <<>>

\* ACK: the arguments the resolver is called with
AckArgs(body) ==
  IF JsonParses(body)
  THEN IF JsonParse(body).kind = "arr" THEN JsonParse(body).elems
       ELSE <<JsonParse(body).name>>
  ELSE <<>>

\* resolve with the last element instead of the first
AckValue_Last(ackArgs) ==
  IF ackArgs = <<>> THEN "undefined" ELSE ackArgs[Len(ackArgs)]

\* resolve(ackArgs[0])
AckValue(ackArgs) == IF ackArgs = <<>> THEN "undefined" ELSE ackArgs[1]

\* this.#acks.delete(ackId)
AcksDelete(id) == [x \in DOMAIN acks \ {id} |-> acks[x]]

\* the resolver of call i runs: emitWithAck's promise resolves, and with it
\* the race of #call unless the timeout has won it
Resolved(call, value) ==
  [call EXCEPT !.emitted = TRUE,
               !.value = IF call.status = "pending" THEN value ELSE @,
               !.status = Settle(@, "resolved")]

\* an ACK for an unknown id that empties the pending-call table
handleAck_UnknownClears(rest) ==
  LET n == DigitRun(rest)
      id == ParseInt(SubSeq(rest, 1, n))
  IN IF n = 0 THEN dropFrame
     ELSE IF id \notin DOMAIN acks
     THEN /\ acks' = EmptyMap
          /\ outbox' = <<>>
          /\ UNCHANGED <<ws, readyState, connected, pingTimer, intervals, listeners,
                         ackId, conn, calls, cache>>
     ELSE /\ acks' = AcksDelete(id)
          /\ calls' = [calls EXCEPT ![acks[id]] =
                         Resolved(@, AckValue(AckArgs(Slice(rest, n))))]
          /\ outbox' = <<>>
          /\ UNCHANGED <<ws, readyState, connected, pingTimer, intervals, listeners,
                         ackId, conn, cache>>

handleAck(rest) ==
  LET n == DigitRun(rest)
      id == ParseInt(SubSeq(rest, 1, n))
  IN IF n = 0 \/ id \notin DOMAIN acks THEN dropFrame
     ELSE /\ acks' = AcksDelete(id)
          /\ calls' = [calls EXCEPT ![acks[id]] =
                         Resolved(@, AckValue(AckArgs(Slice(rest, n))))]
          /\ outbox' = <<>>
          /\ UNCHANGED <<ws, readyState, connected, pingTimer, intervals, listeners,
                         ackId, conn, cache>>

handleSioPacket(packet) ==
  IF packet = <<>> THEN dropFrame
  ELSE CASE packet[1] = "0" -> dispatched(emit(Dispatch, "__sio_connect", <<>>))
         [] packet[1] = "2" ->
              IF EventArray(Slice(packet, 1)) = <<>> THEN dropFrame
              ELSE dispatched(emit(Dispatch, Head(EventArray(Slice(packet, 1))),
                                   Tail(EventArray(Slice(packet, 1)))))
         [] packet[1] = "3" -> handleAck(Slice(packet, 1))
         [] OTHER -> dropFrame

handleFrame(frame) ==
  IF frame = <<>> THEN dropFrame
  ELSE CASE frame[1] = "0" -> handleOpen(Slice(frame, 1))
         [] frame[1] = "2" -> handlePing
         [] frame[1] = "4" -> handleSioPacket(Slice(frame, 1))
         [] OTHER -> dropFrame

\* ------------------------------------------------------------- operations
nConnects == Cardinality({s \in Sockets : readyState[s] # "NONE"})

\* KumaClient.connect, up to the await: the five cache listeners, then
\* SioSocket.connect's executor for socket k
\* a connect() that registers no cache listener
RegisterTopics_None(ls, i) == ls

RECURSIVE RegisterTopics(_, _)
RegisterTopics(ls, i) ==
  IF i > Len(PushTopics) THEN ls
  ELSE RegisterTopics(on(ls, PushTopics[i], cacheListener(PushTopics[i])), i + 1)

connect(k) ==
  /\ conn' = [conn EXCEPT ![k] = [status |-> "pending", timer |-> NewTimer]]
  /\ readyState' = [readyState EXCEPT ![k] = "CONNECTING"]
  /\ ws' = k
  /\ listeners' = on(RegisterTopics(listeners, 1), "__sio_connect", onConnect(k))
  /\ outbox' = <<>>
  /\ UNCHANGED <<connected, pingTimer, intervals, acks, ackId, calls, cache, gotOpen,
                 disconnected>>

\* the connect timer of connect k fires
connectTimeout(k) ==
  /\ conn[k].timer.armed
  /\ conn[k].timer.left = 0
  /\ cleanup
  /\ conn' = [conn EXCEPT ![k] = [status |-> Settle(@.status, "timeout"),
                                  timer |-> NoTimer]]
  /\ outbox' = <<>>
  /\ UNCHANGED <<listeners, ackId, calls, cache, gotOpen, disconnected>>
  /\ UNCHANGED clientVars

\* a disconnect that drops the listeners with the socket
disconnect_DropsListeners ==
  /\ outbox' = Sent(<<"4", "1">>)
  /\ cleanup
  /\ disconnected' = disconnected \cup {s \in Sockets : readyState[s] # "NONE"}
  /\ listeners' = EmptyMap
  /\ UNCHANGED <<ackId, conn, calls, cache, gotOpen>>

\* disconnect(): send "41" when the socket is open, then #cleanup
disconnect ==
  /\ outbox' = Sent(<<"4", "1">>)
  /\ cleanup
  /\ disconnected' = disconnected \cup {s \in Sockets : readyState[s] # "NONE"}
  /\ UNCHANGED <<listeners, ackId, conn, calls, cache, gotOpen>>

\* ------------------------------------------------------ WebSocket events
\* the connection is established (no "open" listener is registered)
wsOpen(s) ==
  /\ readyState[s] = "CONNECTING"
  /\ readyState' = [readyState EXCEPT ![s] = "OPEN"]
  /\ outbox' = <<>>
  /\ UNCHANGED <<ws, connected, pingTimer, intervals, listeners, acks, ackId, conn,
                 calls, cache, gotOpen, disconnected>>
  /\ UNCHANGED clientVars

\* a socket that still delivers messages after close() was called on it
wsMessage_WhileClosing(s, frame) ==
  /\ readyState[s] \in {"OPEN", "CLOSING"}
  /\ handleFrame(frame)
  /\ gotOpen' = IF frame # <<>> /\ frame[1] = "0" THEN gotOpen \cup {s}
                ELSE gotOpen
  /\ UNCHANGED disconnected
  /\ UNCHANGED clientVars

\* "message": delivered only while the socket is OPEN
wsMessage(s, frame) ==
  /\ readyState[s] = "OPEN"
  /\ handleFrame(frame)
  /\ gotOpen' = IF frame # <<>> /\ frame[1] = "0" THEN gotOpen \cup {s}
                ELSE gotOpen
  /\ UNCHANGED disconnected
  /\ UNCHANGED clientVars

\* an error handler that rejects connect and leaves the session as it is
wsError_OnlyRejects(s) ==
  /\ readyState[s] \in {"CONNECTING", "OPEN", "CLOSING"}
  /\ readyState' = [readyState EXCEPT ![s] = "FAILED"]
  /\ conn' = [conn EXCEPT ![s] = [status |-> Settle(@.status, "error"),
                                  timer |-> NoTimer]]
  /\ outbox' = <<>>
  /\ UNCHANGED <<ws, connected, pingTimer, intervals, acks, listeners, ackId,
                 calls, cache, gotOpen, disconnected>>
  /\ UNCHANGED clientVars

\* "error": the connection failed; the socket's close event follows
wsError(s) ==
  /\ readyState[s] \in {"CONNECTING", "OPEN", "CLOSING"}
  /\ cleanupSession
  /\ readyState' = [cleanupReadyState EXCEPT ![s] = "FAILED"]
  /\ conn' = [conn EXCEPT ![s] = [status |-> Settle(@.status, "error"),
                                  timer |-> NoTimer]]
  /\ outbox' = <<>>
  /\ UNCHANGED <<listeners, ackId, calls, cache, gotOpen, disconnected>>
  /\ UNCHANGED clientVars

\* "close": after close(), after an error, or when the server closes
wsClose(s) ==
  /\ readyState[s] \in {"OPEN", "CLOSING", "FAILED"}
  /\ readyState' = [readyState EXCEPT ![s] = "CLOSED"]
  /\ connected' = FALSE
  /\ pingTimer' = stopPing
  /\ intervals' = stopPingIntervals
  /\ outbox' = <<>>
  /\ UNCHANGED <<ws, listeners, acks, ackId, conn, calls, cache, gotOpen,
                 disconnected>>
  /\ UNCHANGED clientVars

\* a keepalive interval whose firing sends nothing
pingFire_Silent ==
  /\ pingTimer # 0
  /\ outbox' = <<>>
  /\ UNCHANGED <<ws, readyState, connected, pingTimer, intervals, listeners, acks,
                 ackId, conn, calls, cache, gotOpen, disconnected>>
  /\ UNCHANGED clientVars

\* the keepalive interval fires
pingFire ==
  /\ pingTimer # 0
  /\ outbox' = Sent(<<"2">>)
  /\ UNCHANGED <<ws, readyState, connected, pingTimer, intervals, listeners, acks,
                 ackId, conn, calls, cache, gotOpen, disconnected>>
  /\ UNCHANGED clientVars

\* ------------------------------------------------------------------ calls
CallEvents == {"login", "getTags"}

NewCall(id, issued, status, timer) ==
  [id |-> id, issued |-> issued, status |-> status, value |-> "",
   emitted |-> FALSE, timer |-> timer]

\* a frame with a separator between the call-id and the payload
CallFrame_Separated(id, event) ==
  <<"4", "2">> \o ToDigits(id) \o <<",", JsonStringify(event)>>

\* the frame emitWithAck sends: `42${id}${payload}`
CallFrame(id, event) == <<"4", "2">> \o ToDigits(id) \o <<JsonStringify(event)>>

\* every resolver of the table settles the call that was issued last
AcksSet_Shared(id, i) == [x \in DOMAIN acks \cup {id} |-> i]

\* this.#acks.set(id, resolver), the resolver being that of call i
AcksSet(id, i) ==
  [x \in DOMAIN acks \cup {id} |-> IF x = id THEN i ELSE acks[x]]

\* the id emitWithAck takes, and the counter it leaves: this.#ackId++
\* an id taken from the size of the pending-call table
TakeId_TableSize == Cardinality(DOMAIN acks)
TakeId == ackId
\* the counter is read but not advanced
NextAckId_Stuck == ackId
NextAckId == ackId + 1

\* KumaClient.#call's guard and SioSocket.emitWithAck's
callRejects == ~connected
emitWithAckRejects == ws = 0 \/ ~connected

\* a #call that takes its call-id before it looks at the connection
callGuarded_TakesId(event, rejects, emitRejects) ==
  /\ Len(calls) < MaxCalls
  /\ IF rejects \/ emitRejects
     THEN /\ calls' = Append(calls, NewCall(0, FALSE, "NotConnected", NoTimer))
          /\ ackId' = NextAckId
          /\ outbox' = <<>>
          /\ UNCHANGED acks
     ELSE /\ calls' = Append(calls, NewCall(TakeId, TRUE, "pending", NewTimer))
          /\ ackId' = NextAckId
          /\ acks' = AcksSet(TakeId, Len(calls) + 1)
          /\ outbox' = Sent(CallFrame(TakeId, event))
  /\ UNCHANGED <<ws, readyState, connected, pingTimer, intervals, listeners, conn,
                 cache, gotOpen, disconnected>>

\* KumaClient.#call(event), with the emitWithAck it makes, under the two guards
callGuarded(event, rejects, emitRejects) ==
  /\ Len(calls) < MaxCalls
  /\ IF rejects
     THEN \* throw new CliError("Not connected to Uptime Kuma")
          /\ calls' = Append(calls, NewCall(0, FALSE, "NotConnected", NoTimer))
          /\ outbox' = <<>>
          /\ UNCHANGED <<acks, ackId>>
     ELSE IF emitRejects
     THEN \* Promise.reject(new Error("Not connected")) wins the race; the
          \* timer of the race is armed all the same
          /\ calls' = Append(calls, NewCall(0, FALSE, "NotConnected", NewTimer))
          /\ outbox' = <<>>
          /\ UNCHANGED <<acks, ackId>>
     ELSE IF SendThrows
     THEN \* send throws after the id was taken: #call fails with that error
          /\ calls' = Append(calls, NewCall(TakeId, FALSE, "SendError", NoTimer))
          /\ ackId' = NextAckId
          /\ outbox' = <<>>
          /\ UNCHANGED acks
     ELSE /\ calls' = Append(calls, NewCall(TakeId, TRUE, "pending", NewTimer))
          /\ ackId' = NextAckId
          /\ acks' = AcksSet(TakeId, Len(calls) + 1)
          /\ outbox' = Sent(CallFrame(TakeId, event))
  /\ UNCHANGED <<ws, readyState, connected, pingTimer, intervals, listeners, conn,
                 cache, gotOpen, disconnected>>

\* a #call whose guards look only at the socket reference
call_SocketOnly(event) ==
  callGuarded(event, ws = 0, ws = 0) /\ UNCHANGED clientVars

\* a #call made outside the facade's methods of this model
call(event) ==
  callGuarded(event, callRejects, emitWithAckRejects) /\ UNCHANGED clientVars

\* what the timer of #call's race does to the pending-call table
timeoutAcks(i) == acks

\* the timer of call i fires: reject(new CliError("... timed out ..."))
callTimeout(i) ==
  /\ i \in DOMAIN calls
  /\ calls[i].timer.armed
  /\ calls[i].timer.left = 0
  /\ calls' = [calls EXCEPT ![i] = [@ EXCEPT !.status = Settle(@, "timeout"),
                                             !.timer = NoTimer]]
  /\ acks' = timeoutAcks(i)
  /\ outbox' = <<>>
  /\ UNCHANGED <<ws, readyState, connected, pingTimer, intervals, listeners, ackId,
                 conn, cache, gotOpen, disconnected>>
  /\ UNCHANGED clientVars

\* ------------------------------------------------------------- the facade
\* The pushed payloads of this model: a JSON object is the sequence of its
\* members in the order of the text, a key is a sequence of characters.
Monitor(id, name) == [id |-> id, name |-> name]
Entry(key, val) == [key |-> key, val |-> val]

PayloadTable ==
  [p \in {"m1", "m2", "i1"} |->
     CASE p = "m1" -> <<Entry(<<"1">>, Monitor(1, <<"w", "e", "b">>))>>
       [] p = "m2" -> <<Entry(<<"2">>, Monitor(2, <<"W", "e", "b">>)),
                        Entry(<<"1">>, Monitor(1, <<"d", "b">>))>>
       [] p = "i1" -> <<Entry(<<"v">>, "1.23")>>]

\* an integer-like key: a canonical array index
IsIndexKey(key) == IsJsonNumber(key)

\* the members with integer-like keys, in ascending numeric order
RECURSIVE SortByIndex(_)
SortByIndex(es) ==
  IF es = <<>> THEN <<>>
  ELSE LET least == CHOOSE i \in DOMAIN es :
                      \A j \in DOMAIN es : ParseInt(es[i].key) <= ParseInt(es[j].key)
       IN <<es[least]>>
          \o SortByIndex(SubSeq(es, 1, least - 1) \o SubSeq(es, least + 1, Len(es)))

IsIndexEntry(e) == IsIndexKey(e.key)
IsNameEntry(e) == ~IsIndexKey(e.key)

\* the own keys of an object as JavaScript enumerates them: integer-like
\* keys first, ascending, then the other keys in the order of creation
OwnEntries(obj) ==
  SortByIndex(SelectSeq(obj, IsIndexEntry)) \o SelectSeq(obj, IsNameEntry)

\* Object.values(obj)
ObjectValues(obj) == [i \in DOMAIN obj |-> OwnEntries(obj)[i].val]

\* if (!this.#monitorList) return []; return Object.values(this.#monitorList)
getMonitors ==
  IF cache["monitorList"] \in {"null", "undefined"} THEN <<>>
  ELSE ObjectValues(PayloadTable[cache["monitorList"]])

\* return this.#info ?? {}
getInfo ==
  IF cache["info"] \in {"null", "undefined"} THEN <<>>
  ELSE PayloadTable[cache["info"]]

\* KumaClient's methods that make one #call each, and the event each sends
Methods ==
  {"getMonitor", "addMonitor", "editMonitor", "deleteMonitor", "pauseMonitor",
   "resumeMonitor", "getTags"}
RemoteName(method) == IF method = "addMonitor" THEN "add" ELSE method

\* res.ok and res.msg of a response envelope; a value without an ok property
\* reads as not ok, and the property read on undefined throws
\* an envelope check that lets every response pass
EnvelopeOk_Always(res) == TRUE
EnvelopeOk(res) == res = "{ok:true}"
EnvelopeMsg(res) == IF res = "{ok:false,msg}" THEN "msg" ELSE "undefined"

Failure(exitCode, msg) == [ok |-> FALSE, exitCode |-> exitCode, msg |-> msg]
Success == [ok |-> TRUE, exitCode |-> 0, msg |-> ""]
Pending == [ok |-> FALSE, exitCode |-> -1, msg |-> ""]

\* a login that reports a rejected envelope as the other methods do
MethodOutcome_Exit7(method, c) ==
  CASE c.status = "pending" -> Pending
    [] c.status = "NotConnected" -> Failure(7, "Not connected")
    [] c.status = "SendError" -> Failure(1, "send")
    [] c.status = "timeout" -> Failure(7, "timed out")
    [] c.status = "resolved" ->
         IF c.value = "undefined" THEN Failure(1, "TypeError")
         ELSE IF EnvelopeOk(c.value) THEN Success
         ELSE Failure(7, EnvelopeMsg(c.value))

\* How the await of #call comes out, and what the method makes of it:
\* login throws exit code 3 on an envelope that is not ok, the others 7.
MethodOutcome(method, c) ==
  CASE c.status = "pending" -> Pending
    [] c.status = "NotConnected" -> Failure(7, "Not connected")
    [] c.status = "SendError" -> Failure(1, "send")
    [] c.status = "timeout" -> Failure(7, "timed out")
    [] c.status = "resolved" ->
         IF c.value = "undefined" THEN Failure(1, "TypeError")
         ELSE IF EnvelopeOk(c.value) THEN Success
         ELSE Failure(IF method = "login" THEN 3 ELSE 7, EnvelopeMsg(c.value))

\* one of the seven methods is called
op(method) ==
  /\ callGuarded(RemoteName(method), callRejects, emitWithAckRejects)
  /\ UNCHANGED login
  /\ UNCHANGED cliVars

\* login(username, password) is called
loginStart ==
  /\ login.call = 0
  /\ callGuarded("login", callRejects, emitWithAckRejects)
  /\ login' = [NoLogin EXCEPT !.call = Len(calls) + 1]

loginCall == loginStart /\ UNCHANGED cliVars

\* a wait that returns at its first check, whatever the cache holds
waitForData_NoWait ==
  /\ login.call # 0
  /\ ~login.done
  /\ MethodOutcome("login", calls[login.call]).ok
  /\ login' = [login EXCEPT !.done = TRUE]
  /\ outbox' = <<>>
  /\ UNCHANGED <<ws, readyState, connected, pingTimer, intervals, listeners, acks, ackId,
                 conn, calls, cache, gotOpen, disconnected>>
  /\ UNCHANGED cliVars

\* #waitForData(() => this.#monitorList !== null, 5000): one check of the
\* loop; when it fails, one sleep of 100 ms
waitForData ==
  /\ login.call # 0
  /\ ~login.done
  /\ MethodOutcome("login", calls[login.call]).ok
  /\ login' = IF cache["monitorList"] # "null" \/ login.polls >= MaxPolls
                 THEN [login EXCEPT !.done = TRUE]
                 ELSE [login EXCEPT !.polls = @ + 1]
  /\ outbox' = <<>>
  /\ UNCHANGED <<ws, readyState, connected, pingTimer, intervals, listeners, acks, ackId,
                 conn, calls, cache, gotOpen, disconnected>>
  /\ UNCHANGED cliVars

\* login() as its caller sees it
LoginOutcome ==
  IF login.call = 0 THEN Pending
  ELSE LET out == MethodOutcome("login", calls[login.call])
       IN IF out.ok /\ ~login.done THEN Pending ELSE out

\* ------------------------------------------------------ the CLI commands
\* A command's action: `const client = await makeClient(ctx); try { ... }
\* finally { client.disconnect(); }`. cmd.pc is the await it stands at.
sessionVars ==
  <<ws, readyState, connected, pingTimer, intervals, listeners, acks, ackId, conn, calls,
    cache, gotOpen, disconnected>>

\* makeClient: new KumaClient(...), await client.connect(url)
cmdMakeClient ==
  /\ cmd.pc = "idle"
  /\ nConnects = 0
  /\ connect(1)
  /\ cmd' = [cmd EXCEPT !.pc = "connect"]
  /\ UNCHANGED <<login, rm>>

\* client.connect rejected: makeClient rejects and the action with it
cmdConnectFailed ==
  /\ cmd.pc = "connect"
  /\ conn[1].status \notin {"pending", "resolved"}
  /\ cmd' = [cmd EXCEPT !.pc = "ended", !.exitCode = 7]
  /\ outbox' = <<>>
  /\ UNCHANGED <<sessionVars, login, rm>>

\* client.connect resolved: makeClient goes on to await client.login(...)
cmdLogin ==
  /\ cmd.pc = "connect"
  /\ conn[1].status = "resolved"
  /\ loginStart
  /\ cmd' = [cmd EXCEPT !.pc = "login"]
  /\ UNCHANGED rm

\* client.login rejected: makeClient rejects and the action with it, outside
\* the action's try
cmdLoginFailed ==
  /\ cmd.pc = "login"
  /\ LoginOutcome # Pending
  /\ ~LoginOutcome.ok
  /\ cmd' = [cmd EXCEPT !.pc = "ended", !.exitCode = LoginOutcome.exitCode]
  /\ outbox' = <<>>
  /\ UNCHANGED <<sessionVars, login, rm>>

\* makeClient returned; the try body awaits one remote method
cmdCall(method) ==
  /\ cmd.pc = "login"
  /\ LoginOutcome = Success
  /\ callGuarded(RemoteName(method), callRejects, emitWithAckRejects)
  /\ cmd' = [cmd EXCEPT !.pc = "call", !.call = Len(calls) + 1]
  /\ UNCHANGED <<login, rm>>

\* makeClient returned; the try body ends without a remote call, normally
\* (the accessors) or by a throw of resolveMonitor: finally, disconnect
cmdTryEnds(exitCode) ==
  /\ cmd.pc = "login"
  /\ LoginOutcome = Success
  /\ disconnect
  /\ cmd' = [cmd EXCEPT !.pc = "ended", !.exitCode = exitCode]
  /\ UNCHANGED <<login, rm>>

\* the awaited method settled: finally, disconnect
cmdFinally ==
  /\ cmd.pc = "call"
  /\ calls[cmd.call].status # "pending"
  /\ disconnect
  /\ cmd' = [cmd EXCEPT !.pc = "ended",
                        !.exitCode = MethodOutcome("getMonitor", calls[cmd.call]).exitCode]
  /\ UNCHANGED <<login, rm>>

\* resolveMonitor(query, monitors)
\* String.prototype.toLowerCase, on the letters of this model
LowerCase(c) ==
  CASE c = "A" -> "a" [] c = "B" -> "b" [] c = "W" -> "w" [] OTHER -> c
toLowerCase(s) == [i \in DOMAIN s |-> LowerCase(s[i])]

\* String.prototype.includes
includes(s, q) ==
  \E i \in 0..(Len(s) - Len(q)) : SubSeq(s, i + 1, i + Len(q)) = q

\* parseInt(query, 10): the value of the leading run of digits, whatever
\* follows it; NaN when the text does not start with a digit (the queries
\* of this model carry no white space and no sign)
parseInt(s) ==
  IF DigitRun(s) = 0 THEN [finite |-> FALSE, n |-> 0]
  ELSE [finite |-> TRUE, n |-> ParseInt(SubSeq(s, 1, DigitRun(s)))]

\* what resolveMonitor comes to: an id returned, or a CliError thrown with
\* exit code 2 whose message lists the monitors that matched
ResolvedTo(id) == [kind |-> "id", id |-> id, exitCode |-> 0, listed |-> <<>>]
ResolveError(listed) ==
  [kind |-> "error", id |-> 0, exitCode |-> 2, listed |-> listed]

Matches(query, monitors) ==
  SelectSeq(monitors,
            LAMBDA mon : includes(toLowerCase(mon.name), toLowerCase(query)))

resolveMonitor(query, monitors) ==
  LET n == parseInt(query)
      matches == Matches(query, monitors)
  IN IF n.finite /\ n.n >= 1 THEN ResolvedTo(n.n)
     ELSE IF Len(matches) = 0 THEN ResolveError(<<>>)
     ELSE IF Len(matches) > 1 THEN ResolveError(matches)
     ELSE ResolvedTo(matches[1].id)

\* the call of resolveMonitor in a command's try body
resolve ==
  /\ rm.result = NoResult
  /\ rm' = [rm EXCEPT !.result = resolveMonitor(rm.query, rm.monitors)]
  /\ outbox' = <<>>
  /\ UNCHANGED <<sessionVars, login, cmd>>

\* a continuation of the action is queued as a microtask: it runs before the
\* event loop delivers anything else
cmdReady ==
  \/ cmd.pc = "connect" /\ conn[1].status # "pending"
  \/ /\ cmd.pc = "login"
     /\ login.call # 0
     /\ calls[login.call].status # "pending"
     /\ login.polls = 0 \/ login.done
  \/ cmd.pc = "call" /\ calls[cmd.call].status # "pending"

\* ------------------------------------------------------------------- time
Elapse(timer) ==
  IF timer.armed /\ timer.left > 0 THEN [timer EXCEPT !.left = @ - 1]
  ELSE timer

\* one tick of the clock: every armed timer comes one tick nearer
tick ==
  /\ \/ \E k \in Sockets : conn[k].timer.armed /\ conn[k].timer.left > 0
     \/ \E i \in DOMAIN calls : calls[i].timer.armed /\ calls[i].timer.left > 0
  /\ conn' = [k \in Sockets |-> [conn[k] EXCEPT !.timer = Elapse(@)]]
  /\ calls' = [i \in DOMAIN calls |-> [calls[i] EXCEPT !.timer = Elapse(@)]]
  /\ outbox' = <<>>
  /\ UNCHANGED <<ws, readyState, connected, pingTimer, intervals, listeners, acks,
                 ackId, cache, gotOpen, disconnected>>
  /\ UNCHANGED clientVars

\* ------------------------------------------------------------ the inputs
\* ACK bodies: arrays, a bare value, garbage, nothing
AckFrames ==
  {<<"4", "3">> \o ToDigits(id) \o <<body>> :
      id \in 0..MaxCalls, body \in {"[a]", "[b,a]"}}
  \cup {<<"4", "3", "0", body>> : body \in {"[]", "\"a\"", "x"}}
  \cup {<<"4", "3", "0">>, <<"4", "3", "[a]">>, <<"4", "3">>,
        <<"4", "3", "0", "0", "[a]">>}

EventFrames ==
  {<<"4", "2", "[monitorList,m1]">>, <<"4", "2", "[monitorList,m2]">>,
   <<"4", "2", "[other,m1]">>, <<"4", "2", "[__sio_connect]">>,
   <<"4", "2", "0", "[monitorList,m1]">>, <<"4", "2", "[]">>,
   <<"4", "2", "x">>, <<"4", "2">>, <<"4", "2", "{}">>}

OpenFrames ==
  {<<"0", "{pi}">>, <<"0", "{}">>, <<"0", "null">>, <<"0", "x">>, <<"0">>,
   <<"0", "5">>}

Frames ==
  AckFrames \cup EventFrames \cup OpenFrames
  \cup {<<>>, <<"2">>, <<"2", "x">>, <<"9">>, <<"4">>, <<"4", "0">>, <<"4", "0", "{}">>,
        <<"4", "1">>}

\* --------------------------------------------------------- specifications
FirstConnect == nConnects = 0 /\ connect(1) /\ UNCHANGED clientVars
\* connect() called again, on a session that has torn its socket down
Reconnect ==
  /\ nConnects \in 1..(MaxConnects - 1)
  /\ ws = 0
  /\ connect(nConnects + 1)
  /\ UNCHANGED clientVars

\* One Session per client, connected once: what makeClient does.
Next ==
  \/ FirstConnect
  \/ disconnect /\ UNCHANGED clientVars
  \/ \E k \in Sockets : connectTimeout(k)
  \/ \E s \in Sockets : wsOpen(s)
  \/ \E s \in Sockets, frame \in Frames : wsMessage(s, frame)
  \/ \E s \in Sockets : wsError(s)
  \/ \E s \in Sockets : wsClose(s)
  \/ pingFire
  \/ \E event \in CallEvents : call(event)
  \/ \E i \in 1..MaxCalls : callTimeout(i)
  \/ tick

Spec == Init /\ [][Next]_vars

\* The same, with the event loop running: time passes while a timer is
\* armed, and a timer whose delay has elapsed fires.
SpecLive ==
  /\ Spec
  /\ WF_vars(tick)
  /\ \A i \in 1..MaxCalls : WF_vars(callTimeout(i))

\* A client used through the facade: login and the seven methods, with the
\* server's handshake, pushes and response envelopes, before any timer fires.
PushFrames ==
  {<<"4", "2", "[monitorList,m1]">>, <<"4", "2", "[monitorList,m2]">>,
   <<"4", "2", "[info,i1]">>, <<"4", "2", "[other,m1]">>}

EnvelopeFrames ==
  {<<"4", "3">> \o ToDigits(id) \o <<body>> :
      id \in 0..(MaxCalls - 1), body \in {"[{ok:true}]", "[{ok:false,msg}]"}}
  \cup {<<"4", "3", "0", "[]">>}

FacadeFrames ==
  PushFrames \cup EnvelopeFrames \cup {<<"0", "{}">>, <<"4", "0">>}

NextFacade ==
  \/ FirstConnect
  \/ disconnect /\ UNCHANGED clientVars
  \/ \E s \in Sockets : wsOpen(s)
  \/ \E s \in Sockets, frame \in FacadeFrames : wsMessage(s, frame)
  \/ \E s \in Sockets : wsClose(s)
  \/ loginCall
  \/ waitForData
  \/ \E method \in Methods : op(method)

SpecFacade == Init /\ [][NextFacade]_vars

\* The sleeps of #waitForData are timers of the event loop: each one fires.
SpecFacadeLive == SpecFacade /\ WF_vars(waitForData)

\* The seven remote methods on one session, with the clock of their timeouts:
\* no login, no pushes, no disconnect.
OpsFrames == EnvelopeFrames \cup {<<"0", "{}">>, <<"4", "0">>}

NextOps ==
  \/ FirstConnect
  \/ \E k \in Sockets : connectTimeout(k)
  \/ \E s \in Sockets : wsOpen(s)
  \/ \E s \in Sockets, frame \in OpsFrames : wsMessage(s, frame)
  \/ \E method \in Methods : op(method)
  \/ \E i \in 1..MaxCalls : callTimeout(i)
  \/ tick

SpecOps == Init /\ [][NextOps]_vars

\* One CLI command from makeClient to the end of its action, with the events
\* and timers of its socket.
NextCommand ==
  \/ cmdMakeClient
  \/ cmdConnectFailed
  \/ cmdLogin
  \/ cmdLoginFailed
  \/ waitForData
  \/ \E method \in Methods : cmdCall(method)
  \/ \E exitCode \in {0, 2} : cmdTryEnds(exitCode)
  \/ cmdFinally
  \/ ~cmdReady /\ \E k \in Sockets : connectTimeout(k)
  \/ ~cmdReady /\ \E s \in Sockets : wsOpen(s)
  \/ ~cmdReady /\ \E s \in Sockets, frame \in FacadeFrames : wsMessage(s, frame)
  \/ ~cmdReady /\ \E s \in Sockets : wsError(s)
  \/ ~cmdReady /\ \E s \in Sockets : wsClose(s)
  \/ ~cmdReady /\ \E i \in 1..MaxCalls : callTimeout(i)
  \/ ~cmdReady /\ tick

SpecCommand == Init /\ [][NextCommand]_vars

\* The listener table of a Session object connected more than once: the
\* handshakes and a push, without timers and without calls.
ListenerFrames ==
  {<<"0", "{}">>, <<"4", "0">>, <<"4", "2", "[monitorList,m1]">>}

NextListeners ==
  \/ FirstConnect
  \/ Reconnect
  \/ disconnect /\ UNCHANGED clientVars
  \/ \E s \in Sockets : wsOpen(s)
  \/ \E s \in Sockets, frame \in ListenerFrames : wsMessage(s, frame)
  \/ \E s \in Sockets : wsClose(s)

SpecListeners == Init /\ [][NextListeners]_vars

\* Calls on a Session object over its whole life: connected, torn down and
\* connected again, with the ACKs and the timeouts of its calls.  A connect
\* here ends by its handshake or by disconnect, not by its own timer.
SessionFrames ==
  {<<"0", "{}">>, <<"4", "0">>}
  \cup {<<"4", "3">> \o ToDigits(id) \o <<"[a]">> : id \in 0..(MaxCalls - 1)}

NextSession ==
  \/ FirstConnect
  \/ Reconnect
  \/ disconnect /\ UNCHANGED clientVars
  \/ \E s \in Sockets : wsOpen(s)
  \/ \E s \in Sockets, frame \in SessionFrames : wsMessage(s, frame)
  \/ call("getTags")
  \/ \E i \in 1..MaxCalls : callTimeout(i)
  \/ tick

SpecSession == Init /\ [][NextSession]_vars

\* resolveMonitor on its own: every query of up to MaxQueryLen characters
\* against every list of up to MaxMonitors distinct monitors.
QueryChars == {"0", "1", "2", "a", "A", "b"}
Queries ==
  UNION {[1..n -> QueryChars] : n \in 0..MaxQueryLen}
MonitorPool ==
  {Monitor(1, <<"a", "b">>), Monitor(2, <<"A">>), Monitor(3, <<"2", "a">>)}
MonitorLists ==
  {ms \in UNION {[1..n -> MonitorPool] : n \in 0..MaxMonitors} :
     \A i, j \in DOMAIN ms : i # j => ms[i].id # ms[j].id}

InitResolve ==
  /\ InitSession
  /\ rm \in {[query |-> q, monitors |-> ms, result |-> NoResult] :
               q \in Queries, ms \in MonitorLists}

NextResolve == resolve

SpecResolve == InitResolve /\ [][NextResolve]_vars

\* The life cycle of a Session object that connect() is called on again:
\* connects, disconnects and the sockets' events, without calls.
NextReuse ==
  \/ FirstConnect
  \/ Reconnect
  \/ disconnect /\ UNCHANGED clientVars
  \/ \E k \in Sockets : connectTimeout(k)
  \/ \E s \in Sockets : wsOpen(s)
  \/ \E s \in Sockets, frame \in Frames : wsMessage(s, frame)
  \/ \E s \in Sockets : wsError(s)
  \/ \E s \in Sockets : wsClose(s)
  \/ tick

SpecReuse == Init /\ [][NextReuse]_vars

\* ==================================================================== claims
Last(seq) == seq[Len(seq)]
ArrayBodies == {"[a]", "[b,a]", "[]"}
AckFrame(n, body) == <<"4", "3">> \o ToDigits(n) \o <<body>>
FirstOf(body) ==
  IF JsonTable[body].elems = <<>> THEN "undefined" ELSE JsonTable[body].elems[1]

\* C1: an ACK frame carrying id n, received while the call issued with id n
\* is pending, resolves exactly that call with the first element of the
\* ACK's array and removes id n from the pending table; every other call
\* and every other entry of the table is left as it was.
C1_AckResolvesItsCall ==
  [][\A i \in DOMAIN calls :
       (calls[i].issued /\ calls[i].status = "pending") =>
         \A s \in Sockets, body \in ArrayBodies :
           wsMessage(s, AckFrame(calls[i].id, body))
           => /\ calls'[i].status = "resolved"
              /\ calls'[i].value = FirstOf(body)
              /\ calls[i].id \notin DOMAIN acks'
              /\ \A j \in DOMAIN calls \ {i} : calls'[j] = calls[j]
              /\ DOMAIN acks' = DOMAIN acks \ {calls[i].id}
              /\ \A x \in DOMAIN acks' : acks'[x] = acks[x]]_vars

\* a call resolved with the first element of ["b","a"] and out of the table,
\* beside a call that is still pending and still in it
C1_Witness ==
  \E i, j \in DOMAIN calls :
    /\ calls[i].status = "resolved" /\ calls[i].value = "b"
    /\ calls[i].id \notin DOMAIN acks
    /\ calls[j].status = "pending" /\ calls[j].id \in DOMAIN acks

\* C2: the pending table holds no entry for a call that has failed with a
\* timeout.
C2_TimedOutCallLeavesTable ==
  \A i \in DOMAIN calls :
    calls[i].status = "timeout" => calls[i].id \notin DOMAIN acks

\* C3: a call fails with a timeout only once its deadline has elapsed, and
\* after that an ACK for its id is dropped: the call's outcome stays, no
\* resolver and no listener is invoked.
C3_LateAckIsDropped ==
  [][\A i \in DOMAIN calls :
       /\ (calls[i].status = "pending" /\ calls'[i].status = "timeout")
            => calls[i].timer.left = 0
       /\ calls[i].status = "timeout"
            => /\ calls'[i].status = "timeout"
               /\ calls'[i].value = calls[i].value
               /\ calls'[i].emitted = calls[i].emitted]_vars

\* C4: no two pending calls share a call-id.
C4_PendingIdsDistinct ==
  \A i, j \in DOMAIN calls :
    (i # j /\ calls[i].status = "pending" /\ calls[j].status = "pending")
      => calls[i].id # calls[j].id

\* two calls pending at once
C4_Witness ==
  \E i, j \in DOMAIN calls :
    /\ i # j
    /\ calls[i].status = "pending" /\ calls[j].status = "pending"
    /\ {calls[i].id, calls[j].id} \subseteq DOMAIN acks

\* C5: a call made while the session is not Connected fails at once with
\* NotConnected, sends no frame, takes no call-id and adds no pending entry.
C5_NotConnectedCallFails ==
  [][(Len(calls') = Len(calls) + 1 /\ (~connected \/ ws = 0))
       => /\ Last(calls').status = "NotConnected"
          /\ outbox' = <<>>
          /\ UNCHANGED <<acks, ackId>>]_vars

\* a call rejected during the handshake, and a call rejected after disconnect
C5_Witness ==
  /\ Len(calls) = 2
  /\ calls[1].status = "NotConnected" /\ calls[2].status = "NotConnected"
  /\ 1 \in gotOpen
  /\ 1 \in disconnected

InnerConnectFrames == {<<"4", "0">>, <<"4", "0", "{}">>}
SentOn(s, frame) == <<[sock |-> s, frame |-> frame]>>

\* C6: on an OPEN frame the client sends `40` on that socket; when the inner
\* CONNECT is then received while connect() is pending, connect() resolves,
\* the session is Connected and the connect timer is cancelled; a resolved
\* connect stays resolved and its timer never fires.
C6_HandshakeResolvesConnect ==
  [][\A s \in Sockets :
       /\ readyState[s] = "OPEN" =>
            \A f \in OpenFrames :
              wsMessage(s, f) => outbox' = SentOn(s, <<"4", "0">>)
       /\ (s \in gotOpen /\ conn[s].status = "pending") =>
            \A f \in InnerConnectFrames :
              wsMessage(s, f)
              => /\ conn'[s].status = "resolved"
                 /\ connected'
                 /\ ~conn'[s].timer.armed
       /\ conn[s].status = "resolved"
            => /\ conn'[s].status = "resolved"
               /\ ~conn'[s].timer.armed
               /\ ~connectTimeout(s)]_vars

\* the handshake has completed: OPEN, then CONNECT, connect() resolved
C6_Witness ==
  /\ 1 \in gotOpen
  /\ conn[1].status = "resolved"
  /\ connected
  /\ ~conn[1].timer.armed
  /\ readyState[1] = "OPEN"

\* C7: when the connect timer fires, connect() is still pending and fails
\* with the timeout, the socket is closed and the session is not Connected;
\* a settled connect keeps its outcome.
C7_ConnectTimeoutTearsDown ==
  [][\A k \in Sockets :
       /\ connectTimeout(k)
            => /\ conn[k].status = "pending"
               /\ conn'[k].status = "timeout"
               /\ readyState'[k] \notin {"CONNECTING", "OPEN"}
               /\ ws' = 0
               /\ ~connected'
       /\ conn[k].status \in {"resolved", "timeout", "error"}
            => conn'[k].status = conn[k].status]_vars

\* a connect that timed out between OPEN and the inner CONNECT
C7_Witness ==
  /\ conn[1].status = "timeout"
  /\ 1 \in gotOpen
  /\ readyState[1] = "CLOSING"
  /\ ~connected

\* C8: an OPEN frame arms the keepalive timer with the advertised interval,
\* or with 25000 when the payload has none or is not parsable, and the inner
\* CONNECT is sent in each case.
C8_OpenArmsKeepalive ==
  [][\A s \in Sockets :
       readyState[s] = "OPEN" =>
         \A f \in OpenFrames :
           wsMessage(s, f)
           => /\ pingTimer' = IF f = <<"0", "{pi}">>
                              THEN AdvertisedPingInterval
                              ELSE DefaultPingInterval
              /\ outbox' = SentOn(s, <<"4", "0">>)]_vars

\* C9: once disconnect() has been called on a session that had connected,
\* the session is never Connected again.
C9_ClosedIsTerminal == [][disconnected # {} => ~connected']_vars

\* C10: the session is Connected only if an OPEN frame was received on its
\* current socket before.
C10_ConnectedOnlyAfterOpen == connected => (ws # 0 /\ ws \in gotOpen)

PingFrames == {<<"2">>, <<"2", "x">>}

\* C11: every PING frame received on the session's open socket is answered
\* in the same step with exactly one PONG frame `3` on that socket, whatever
\* the handshake state and the keepalive timer, which it leaves as it was.
C11_PingAnsweredWithPong ==
  [][\A s \in Sockets :
       readyState[s] = "OPEN" =>
         \A f \in PingFrames :
           wsMessage(s, f)
           => /\ outbox' = SentOn(s, <<"3">>)
              /\ UNCHANGED <<pingTimer, connected, acks, calls, conn>>]_vars

\* a PONG sent before any OPEN frame was received, with no keepalive timer
C11_Witness ==
  /\ outbox = SentOn(1, <<"3">>)
  /\ 1 \notin gotOpen
  /\ pingTimer = 0
  /\ ~connected

\* empty, unknown type digit, OPEN and EVENT with unparsable JSON, EVENT that
\* is not a non-empty array, ACK without digits, ACK with an unparsable body
MalformedFrames ==
  {<<>>, <<"9">>, <<"0", "x">>, <<"0">>, <<"4", "2", "x">>, <<"4", "2">>,
   <<"4", "2", "[]">>, <<"4", "2", "{}">>, <<"4", "3", "[a]">>, <<"4", "3">>,
   <<"4", "3", "0", "x">>, <<"4", "3", "0">>}

\* C12: a malformed inbound frame settles and removes no pending call,
\* invokes no listener and changes nothing of the connection state.
C12_MalformedFrameDropped ==
  [][\A s \in Sockets :
       readyState[s] = "OPEN" =>
         \A f \in MalformedFrames :
           wsMessage(s, f)
           => UNCHANGED <<calls, acks, listeners, conn, connected, cache,
                          ws, readyState>>]_vars

\* C13: an EVENT named e invokes every handler registered for e when the
\* dispatch starts, once each, in registration order, with the rest of the
\* array as arguments.
C13_DispatchInvokesAll ==
  [][\A s \in Sockets :
       readyState[s] = "OPEN" =>
         \A f \in EventFrames :
           LET arr == EventArray(Slice(f, 2))
           IN (arr # <<>> /\ Head(arr) \in DOMAIN listeners /\ wsMessage(s, f))
              => emit(Dispatch, Head(arr), Tail(arr)).invoked
                   = [i \in DOMAIN listeners[Head(arr)] |->
                        Invocation(listeners[Head(arr)][i], Tail(arr))]]_vars

\* C14: an EVENT frame, whatever its name and arguments, leaves the
\* pending-call table and every call as they were.
C14_EventLeavesCallsAlone ==
  [][\/ UNCHANGED <<acks, calls, ackId>>
     \/ \A s \in Sockets :
          readyState[s] = "OPEN" =>
            \A f \in EventFrames : ~wsMessage(s, f)]_vars

\* a pushed monitorList in the cache while a call is pending in the table
C14_Witness ==
  /\ cache["monitorList"] = "m1"
  /\ \E i \in DOMAIN calls :
       /\ calls[i].status = "pending"
       /\ calls[i].id \in DOMAIN acks
       /\ acks[calls[i].id] = i

\* C15: an ACK frame whose id has no entry in the pending-call table changes
\* nothing: table, calls, listeners, connection state and caches stay as
\* they were and no frame is sent.
C15_UnknownAckIsNoOp ==
  [][\/ /\ outbox' = <<>>
        /\ UNCHANGED <<acks, calls, listeners, conn, connected, cache, ws,
                       readyState, pingTimer, ackId>>
     \/ \A s \in Sockets :
          readyState[s] = "OPEN" =>
            \A n \in (0..MaxCalls) \ DOMAIN acks, body \in {"[a]", "[b,a]"} :
              ~wsMessage(s, AckFrame(n, body))]_vars

\* an open session whose first call has resolved and left the table, so an
\* ACK for its id is a duplicate, beside an entry such an ACK must not touch
C15_Witness ==
  /\ connected
  /\ ws # 0 /\ readyState[ws] = "OPEN"
  /\ Len(calls) = 2
  /\ calls[1].status = "resolved" /\ calls[1].emitted
  /\ DOMAIN acks = {calls[2].id}
  /\ calls[1].id # calls[2].id

\* the frame the encoder makes of an EVENT with a call-id: `42${id}${payload}`
EventFrameWithId(id, json) == <<"4", "2">> \o ToDigits(id) \o <<json>>

\* C16: an inbound EVENT frame that carries a call-id is decoded to the same
\* name and arguments as without the id, and dispatched to the listeners of
\* its name.
C16_EventWithIdIsDispatched ==
  [][\A s \in Sockets :
       readyState[s] = "OPEN" =>
         \A id \in 0..MaxCalls :
           wsMessage(s, EventFrameWithId(id, "[monitorList,m1]"))
           => /\ EventArray(Slice(EventFrameWithId(id, "[monitorList,m1]"), 2))
                   = <<"monitorList", "m1">>
              /\ cache'["monitorList"] = "m1"]_vars

\* C17: with two calls in flight, the ACK for either id, whichever comes
\* first, resolves in that step the call issued with that id, with that
\* ACK's result, and leaves the other call pending with its own resolver.
C17_AcksInAnyOrder ==
  [][\A i, j \in DOMAIN calls :
       (/\ i # j
        /\ calls[i].issued /\ calls[i].status = "pending"
        /\ calls[j].issued /\ calls[j].status = "pending") =>
         \A s \in Sockets, body \in ArrayBodies :
           wsMessage(s, AckFrame(calls[i].id, body))
           => /\ calls'[i].status = "resolved"
              /\ calls'[i].value = FirstOf(body)
              /\ calls'[j].status = "pending"
              /\ calls'[j].value = calls[j].value
              /\ calls[j].id \in DOMAIN acks'
              /\ acks'[calls[j].id] = j]_vars

\* the call issued second has resolved while the one issued first still waits
C17_Witness ==
  /\ Len(calls) = 2
  /\ calls[1].issued /\ calls[1].status = "pending"
  /\ calls[2].issued /\ calls[2].status = "resolved"
  /\ calls[1].id < calls[2].id
  /\ DOMAIN acks = {calls[1].id}

\* C18: every disconnect(), whatever the socket's state and whether or not
\* the DISCONNECT frame could be sent, stops the keepalive timer, closes the
\* socket, empties the pending-call table and leaves the session not
\* Connected.
C18_DisconnectTearsDown ==
  [][disconnect
       => /\ pingTimer' = 0
          /\ ws' = 0
          /\ \A s \in Sockets : readyState'[s] \notin {"CONNECTING", "OPEN"}
          /\ acks' = EmptyMap
          /\ ~connected']_vars

\* just after the disconnect of a connected session with a call in flight:
\* `41` went out, the socket is closing, the table is empty
C18_Witness ==
  /\ outbox = SentOn(1, <<"4", "1">>)
  /\ 1 \in disconnected
  /\ readyState[1] = "CLOSING"
  /\ ws = 0 /\ pingTimer = 0 /\ ~connected
  /\ acks = EmptyMap
  /\ \E i \in DOMAIN calls : calls[i].issued /\ calls[i].status = "pending"

\* C19: disconnect() fails every call that is pending when it is called.
C19_DisconnectFailsPending ==
  [][disconnect
       => \A i \in DOMAIN calls :
            calls[i].status = "pending" => calls'[i].status # "pending"]_vars

\* C20: every call made through the facade settles in the end: resolved by
\* its ACK or failed, also when no ACK comes and when the session is
\* disconnected or its socket closes while the call is pending.  A settled
\* call stays settled and calls are finitely many, so this is: again and
\* again, no call is pending.
C20_CallEventuallySettles ==
  []<>(\A i \in DOMAIN calls : calls[i].status # "pending")

\* a call whose ACK never came and whose session was disconnected while it
\* was pending, failed by its own timer
C20_Witness ==
  /\ 1 \in disconnected
  /\ \E i \in DOMAIN calls :
       /\ calls[i].issued
       /\ ~calls[i].emitted
       /\ calls[i].status = "timeout"
       /\ calls[i].id \notin DOMAIN acks

\* the topic and the payload of a push frame 42["topic",payload]
TopicOf(f) == JsonTable[f[3]].elems[1]
PayloadOf(f) == JsonTable[f[3]].elems[2]

\* C21: the five cache listeners are registered when the socket is created,
\* so every push of one of the five topics received on it, at any point of
\* the handshake or after it, is written to the cache of its topic.
C21_PushUpdatesCache ==
  [][\A s \in Sockets :
       readyState[s] = "OPEN" =>
         \A f \in PushFrames :
           \/ TopicOf(f) \notin DOMAIN cache
           \/ ~wsMessage(s, f)
           \/ cache'[TopicOf(f)] = PayloadOf(f)]_vars

\* a push that was cached before the server's inner CONNECT came
C21_Witness ==
  /\ cache["monitorList"] = "m1"
  /\ conn[1].status = "pending"
  /\ ~connected
  /\ readyState[1] = "OPEN"

\* C22: every cache field starts absent and changes only by a push of its
\* own topic, to the payload of that push; pushes of other topics, ACKs,
\* calls and login leave it as it was.
C22_CacheHoldsLastPush ==
  /\ \A t \in DOMAIN cache : cache[t] = "null"
  /\ [][\A t \in DOMAIN cache :
          \/ cache'[t] = cache[t]
          \/ \E s \in Sockets, f \in PushFrames :
               /\ TopicOf(f) = t
               /\ cache'[t] = PayloadOf(f)
               /\ wsMessage(s, f)]_vars

\* two topics cached, the monitor list from its second payload, after a
\* login whose call was answered
C22_Witness ==
  /\ cache["monitorList"] = "m2"
  /\ cache["info"] = "i1"
  /\ cache["statusPageList"] = "null"
  /\ login.call # 0
  /\ calls[login.call].status = "resolved"

\* the values of a pushed object in the order of the server's text
ServerValues(p) ==
  IF p \in {"null", "undefined"} THEN <<>>
  ELSE [i \in DOMAIN PayloadTable[p] |-> PayloadTable[p][i].val]

\* C23: getMonitors returns the values of the last pushed monitorList in
\* the server's key order, and getInfo the last pushed info; both return an
\* empty collection while their cache is absent.
C23_AccessorsReturnServerOrder ==
  /\ getMonitors = ServerValues(cache["monitorList"])
  /\ getInfo = IF cache["info"] = "null" THEN <<>>
               ELSE PayloadTable[cache["info"]]

\* C24: when the ACK of the login call carries an envelope that is not ok,
\* login fails in that step with exit code 3 and the server's message,
\* without any wait for pushed data, and the session stays Connected.
C24_LoginRejected ==
  [][(login.call # 0 /\ calls[login.call].status = "pending") =>
       \A s \in Sockets :
         \/ ~wsMessage(s, AckFrame(calls[login.call].id, "[{ok:false,msg}]"))
         \/ /\ LoginOutcome' = Failure(3, "msg")
            /\ connected /\ connected'
            /\ login' = login
            /\ ~ENABLED waitForData]_vars

\* login has failed with the server's message on a session that is still
\* Connected and has received no monitor list
C24_Witness ==
  /\ LoginOutcome = Failure(3, "msg")
  /\ connected
  /\ cache["monitorList"] = "null"
  /\ login.polls = 0 /\ ~login.done

\* C25: after a login ACK that is ok, login completes only once the monitor
\* cache is non-absent or the ceiling of the wait has elapsed; it always
\* completes, and when it completes (also at the ceiling) it succeeds.
C25_LoginWaitsForData ==
  /\ [](login.done =>
         /\ cache["monitorList"] # "null" \/ login.polls >= MaxPolls
         /\ LoginOutcome = Success)
  /\ (login.call # 0 /\ MethodOutcome("login", calls[login.call]).ok)
       ~> login.done

\* login has succeeded at the ceiling of its wait, the monitor cache absent
C25_Witness ==
  /\ login.done
  /\ LoginOutcome = Success
  /\ login.polls = MaxPolls
  /\ cache["monitorList"] = "null"

IsCallFrame(frame) == Len(frame) >= 2 /\ frame[1] = "4" /\ frame[2] = "2"

\* C26: each of the seven methods, called on a connected session, sends
\* exactly one EVENT frame carrying the next call-id and the method's one
\* remote operation name; no other step (a timeout included) sends an EVENT
\* frame; an ACK with an ok:true envelope for the pending call makes the
\* method succeed, one with ok:false makes it fail with the server's message.
C26_MethodIsOneCall ==
  [][/\ \A method \in Methods :
          (connected /\ op(method)) =>
            outbox' = SentOn(ws, CallFrame(ackId, RemoteName(method)))
     /\ (\E x \in DOMAIN outbox' : IsCallFrame(outbox'[x].frame)) =>
          \E method \in Methods : op(method)
     /\ \A i \in DOMAIN calls :
          calls[i].status = "pending" =>
            \A s \in Sockets :
              readyState[s] = "OPEN" =>
                /\ \/ ~wsMessage(s, AckFrame(calls[i].id, "[{ok:true}]"))
                   \/ \A method \in Methods :
                        MethodOutcome(method, calls'[i]) = Success
                /\ \/ ~wsMessage(s, AckFrame(calls[i].id, "[{ok:false,msg}]"))
                   \/ \A method \in Methods :
                        MethodOutcome(method, calls'[i]) = Failure(7, "msg")]_vars

\* one method has failed with the server's message and another has timed
\* out after its one frame
C26_Witness ==
  \E i, j \in DOMAIN calls :
    /\ calls[i].issued /\ calls[j].issued
    /\ MethodOutcome("getTags", calls[i]) = Failure(7, "msg")
    /\ calls[j].status = "timeout"

\* C27: when a command has ended and its client's connect had succeeded, the
\* client was disconnected.
C27_CommandDisconnects ==
  (cmd.pc = "ended" /\ conn[1].status = "resolved") => 1 \in disconnected

\* a numeric ID: a text of decimal digits that names an id (ids start at 1)
IsNumericId(query) ==
  /\ query # <<>>
  /\ \A i \in DOMAIN query : query[i] \in Digits
  /\ ParseInt(query) >= 1

\* C28: resolveMonitor resolves a query that is a numeric ID to that ID, and
\* any other query by case-insensitive substring match on the names: to the
\* id of the single match, to an error with exit code 2 when nothing
\* matches, to an error with exit code 2 listing all matches when more than
\* one does.
C28_ResolveMonitor ==
  rm.result # NoResult =>
    LET matches == Matches(rm.query, rm.monitors)
    IN IF IsNumericId(rm.query)
       THEN rm.result = ResolvedTo(ParseInt(rm.query))
       ELSE /\ Len(matches) = 1 => rm.result = ResolvedTo(matches[1].id)
            /\ Len(matches) = 0 =>
                 rm.result.kind = "error" /\ rm.result.exitCode = 2
            /\ Len(matches) > 1 =>
                 /\ rm.result.kind = "error" /\ rm.result.exitCode = 2
                 /\ rm.result.listed = matches

Count(arr, h) == Cardinality({i \in DOMAIN arr : arr[i] = h})
Without(arr, h) == SelectSeq(arr, LAMBDA x : x # h)
Handlers ==
  {onConnect(k) : k \in Sockets}
  \cup {cacheListener(PushTopics[i]) : i \in DOMAIN PushTopics}

\* C29: on every table the session reaches, off(event, handler) for a
\* handler registered for the event removes it, so that a later dispatch of
\* the event does not invoke it, and leaves the other handlers of the event
\* in their order and every other event as it was; off for a handler or an
\* event that is not registered returns the table as it was.  And in every
\* step in which an onConnect handler has removed itself, the handlers that
\* remain are in their order and the other events are as they were.
C29_OffRemovesOnlyItsHandler ==
  /\ [](\A event \in DOMAIN listeners \cup {"unregistered"}, h \in Handlers :
          LET after == off(listeners, event, h)
          IN IF event \in DOMAIN listeners /\ Count(listeners[event], h) = 1
             THEN /\ DOMAIN after = DOMAIN listeners
                  /\ after[event] = Without(listeners[event], h)
                  /\ \A e \in DOMAIN listeners \ {event} : after[e] = listeners[e]
                  /\ \A x \in DOMAIN emit([Dispatch EXCEPT !.listeners = after],
                                         event, <<>>).invoked :
                       emit([Dispatch EXCEPT !.listeners = after],
                            event, <<>>).invoked[x].h # h
             ELSE (event \notin DOMAIN listeners \/ Count(listeners[event], h) = 0)
                    => after = listeners)
  /\ [][\A k \in Sockets :
          ( /\ "__sio_connect" \in DOMAIN listeners
            /\ Count(listeners["__sio_connect"], onConnect(k)) = 1
            /\ Count(listeners'["__sio_connect"], onConnect(k)) = 0 ) =>
            /\ listeners'["__sio_connect"] =
                 SelectSeq(listeners["__sio_connect"],
                           LAMBDA x : Count(listeners'["__sio_connect"], x) > 0)
            /\ \A e \in DOMAIN listeners \ {"__sio_connect"} :
                 listeners'[e] = listeners[e]]_vars

\* the onConnect of the first connect has removed itself and that of the
\* second is still registered
C29_Witness ==
  /\ "__sio_connect" \in DOMAIN listeners
  /\ listeners["__sio_connect"] = <<onConnect(2)>>
  /\ conn[1].status = "resolved"

\* C30: disconnect leaves the listener table as it was, the same handlers in
\* the same order, and abandons the pending calls: the table of resolvers is
\* emptied and no call is settled by it.
C30_DisconnectKeepsListeners ==
  [][\/ ~disconnect
     \/ /\ listeners' = listeners
        /\ acks' = EmptyMap
        /\ calls' = calls]_vars

\* after a disconnect the five cache listeners are still registered and a
\* call that was sent is still pending, its resolver gone
C30_Witness ==
  /\ 1 \in disconnected
  /\ \A i \in DOMAIN PushTopics :
       /\ PushTopics[i] \in DOMAIN listeners
       /\ listeners[PushTopics[i]] = <<cacheListener(PushTopics[i])>>
  /\ acks = EmptyMap
  /\ \E i \in DOMAIN calls : calls[i].issued /\ calls[i].status = "pending"

\* the calls that took a call-id and sent their frame
IssuedBefore == Cardinality({j \in DOMAIN calls : calls[j].issued})

\* C31: a call that is sent puts exactly one frame on the socket: `4`, `2`,
\* the decimal digits of its call-id and the JSON array of its name and
\* arguments, nothing in between; and the call-id of the n-th frame sent on
\* the Session is n - 1.
C31_CallFrameFormat ==
  [][\A event \in CallEvents :
       (call(event) /\ Last(calls').issued) =>
         /\ outbox' = SentOn(ws, <<"4", "2">> \o ToDigits(IssuedBefore)
                                   \o <<JsonStringify(event)>>)
         /\ Last(calls').id = IssuedBefore]_vars

\* the second call of the session has just sent its frame, with call-id 1
C31_Witness ==
  /\ Len(calls) = 2
  /\ calls[1].issued /\ calls[2].issued
  /\ outbox = SentOn(1, <<"4", "2", "1", "[getTags]">>)

\* C32: a firing of the armed keepalive timer sends exactly one PING `2` on
\* the session's socket when that socket is open and nothing when it is
\* not, and changes nothing else, the timer included; while the timer is
\* armed a server PING is still answered in its own step with one PONG.
C32_KeepaliveSendsPing ==
  [][/\ \/ ~pingFire
        \/ /\ pingTimer # 0
           /\ outbox' = IF ws # 0 /\ readyState[ws] = "OPEN"
                         THEN SentOn(ws, <<"2">>) ELSE <<>>
           /\ UNCHANGED <<ws, readyState, connected, pingTimer, listeners,
                          acks, ackId, conn, calls, cache>>
     /\ pingTimer # 0 =>
          \A s \in Sockets :
            readyState[s] = "OPEN" =>
              \/ ~wsMessage(s, <<"2">>)
              \/ outbox' = SentOn(s, <<"3">>) /\ pingTimer' = pingTimer]_vars

\* the armed timer has just fired on the open socket of a connected session
C32_Witness ==
  /\ outbox = SentOn(1, <<"2">>)
  /\ pingTimer # 0
  /\ readyState[1] = "OPEN"
  /\ connected

\* C33: at most one keepalive interval of the session is live, and it is the
\* one the session holds; none is live once the socket has been closed or
\* has failed, the connect has failed, or the session has been disconnected.
C33_OneKeepaliveTimer ==
  /\ intervals <= 1
  /\ intervals = 1 <=> pingTimer # 0
  /\ \A s \in Sockets :
       ( \/ readyState[s] \in {"CLOSING", "CLOSED", "FAILED"}
         \/ conn[s].status \in {"timeout", "error"}
         \/ s \in disconnected ) => intervals = 0

\* an OPEN frame has just been handled on a session whose handshake was
\* complete: its keepalive interval is the only one
C33_Witness ==
  /\ outbox = SentOn(1, <<"4", "0">>)
  /\ conn[1].status = "resolved"
  /\ 1 \in gotOpen
  /\ pingTimer = AdvertisedPingInterval
  /\ intervals = 1

\* C34: whenever the session is not Connected, the pending-call table holds
\* no entry.
C34_TableEmptyUnlessConnected == ~connected => acks = EmptyMap

C36_CallSettlesOnce ==
  [][\A i \in DOMAIN calls :
       /\ calls[i].status # "pending" =>
            /\ calls'[i].status = calls[i].status
            /\ calls'[i].value = calls[i].value
       /\ (calls[i].status = "pending" /\ calls'[i].status # "pending") =>
            \/ /\ calls'[i].status = "resolved"
               /\ calls[i].id \in DOMAIN acks /\ acks[calls[i].id] = i
               /\ calls[i].id \notin DOMAIN acks'
               /\ ~calls[i].emitted /\ calls'[i].emitted
            \/ /\ calls'[i].status = "timeout"
               /\ calls[i].timer.armed /\ calls[i].timer.left = 0
               /\ calls'[i].value = calls[i].value]_vars

\* one call resolved by its ACK whose timer fired afterwards, and one call
\* timed out whose ACK came afterwards
C36_Witness ==
  /\ \E i \in DOMAIN calls :
       /\ calls[i].status = "resolved" /\ calls[i].emitted
       /\ ~calls[i].timer.armed
  /\ \E j \in DOMAIN calls :
       /\ calls[j].status = "timeout"
       /\ calls[j].emitted

\* C37: the calls that took a call-id have strictly increasing ids in the
\* order they were issued, whatever became of the earlier ones (resolved,
\* timed out, cleared by a teardown), and an ACK frame settles no call but
\* the one that was issued with the frame's id.
C37_IdsNeverReused ==
  /\ [](\A i, j \in DOMAIN calls :
          (i < j /\ calls[i].issued /\ calls[j].issued)
            => calls[i].id < calls[j].id)
  /\ [][\A n \in 0..(MaxCalls - 1), s \in Sockets :
          readyState[s] = "OPEN" =>
            \/ ~wsMessage(s, AckFrame(n, "[a]"))
            \/ \A j \in DOMAIN calls :
                 (~calls[j].issued \/ calls[j].id # n)
                   => calls'[j] = calls[j]]_vars

\* a call sent after a teardown and a second connect, while the call sent
\* before the teardown is still unanswered: it has the next id
C37_Witness ==
  /\ Len(calls) = 2
  /\ calls[1].issued /\ calls[1].id = 0 /\ calls[1].status = "pending"
  /\ calls[2].issued /\ calls[2].id = 1
  /\ 1 \in disconnected
  /\ ws = 2
  /\ acks = AcksSet(1, 2)

\* C38: an error event of the socket, whenever it comes, leaves the session
\* not Connected, without keepalive timer, without an open or connecting
\* socket and with an empty pending-call table; when connect is pending it
\* fails with the connect error and its timer is cancelled, and the command
\* then ends with exit code 7.
C38_SocketErrorTearsDown ==
  /\ [][\A s \in Sockets :
          \/ ~wsError(s)
          \/ /\ ~connected'
             /\ pingTimer' = 0 /\ intervals' = 0
             /\ ws' = 0
             /\ \A k \in Sockets : readyState'[k] \notin {"CONNECTING", "OPEN"}
             /\ acks' = EmptyMap
             /\ conn[s].status = "pending" =>
                  /\ conn'[s].status = "error"
                  /\ ~conn'[s].timer.armed]_vars
  /\ []((cmd.pc = "ended" /\ conn[1].status = "error") => cmd.exitCode = 7)

\* a command ended with exit code 7 after a socket error between the OPEN
\* frame and the inner CONNECT
C38_Witness ==
  /\ cmd.pc = "ended" /\ cmd.exitCode = 7
  /\ conn[1].status = "error"
  /\ 1 \in gotOpen
  /\ ~connected /\ ws = 0 /\ pingTimer = 0

\* C39: a step in which a call is rejected with NotConnected changes
\* nothing of the Session: the call-id counter, the pending-call table, the
\* listener table, the socket and its state, the connected flag, the
\* keepalive timer and the connects are as before, and nothing is sent.
C39_RejectedCallLeavesSession ==
  [][(Len(calls') = Len(calls) + 1 /\ Last(calls').status = "NotConnected")
       => /\ UNCHANGED <<ackId, acks, listeners, ws, readyState, connected,
                         pingTimer, intervals, conn, cache>>
          /\ outbox' = <<>>
          /\ \A i \in DOMAIN calls : calls'[i] = calls[i]]_vars

\* a call rejected on a session whose socket was closed by the server while
\* an earlier call was pending: the counter and the table are as they were
C39_Witness ==
  /\ Len(calls) = 2
  /\ calls[1].issued /\ calls[1].status = "pending"
  /\ calls[2].status = "NotConnected"
  /\ ackId = 1
  /\ acks = AcksSet(0, 1)
  /\ ~connected /\ ws = 1

====
